---------------------------- MODULE Spec2Model ----------------------------
(***************************************************************************)
(* A model of src/api.py (GiftGiver API): the OAuth token cache, the two   *)
(* request handlers with their two outbound calls, and the pure text       *)
(* normalisers and query builder.                                          *)
(*                                                                         *)
(* Text is modelled as a sequence of one-character strings, so that the    *)
(* regular expressions, str.replace, str.split and str.strip of the source *)
(* are computed character by character.  A Python float is modelled by its *)
(* exact decimal digits (sign, integer digits, fraction digits), which is  *)
(* exact for the digit strings the inputs below can spell (at most 15      *)
(* significant digits, where decimal -> double is injective and monotone). *)
(*                                                                         *)
(* Operators bind their arguments with Only({e : x \in {arg}}): x is then  *)
(* the value of arg, computed once, wherever e uses it.                    *)
(***************************************************************************)
EXTENDS Integers, Sequences, FiniteSets, TLC

(***************************************************************************)
(* Bounds of the model                                                     *)
(***************************************************************************)
\* a budget text is a concatenation of at most MaxPieces pieces
MaxPieces == 3

\* the element of a one-element set
Only(S) == CHOOSE x \in S : TRUE

MinOf(S) == CHOOSE i \in S : \A j \in S : i <= j
MaxOf(S) == CHOOSE i \in S : \A j \in S : j <= i

(***************************************************************************)
(* Characters and strings                                                  *)
(***************************************************************************)
DigitChars == <<"0", "1", "2", "3", "4", "5", "6", "7", "8", "9">>

\* U+2013 and U+2014, the two dash characters of RANGE_PATTERN (one
\* character each; named here because the module text is ASCII)
EnDash == "<U+2013>"
EmDash == "<U+2014>"

\* \d of the re module, over the characters the model uses
IsDigit(c) == c \in {"0", "1", "2", "3", "4", "5", "6", "7", "8", "9"}

\* \s of the re module and the whitespace of str.strip, over the characters
\* the model uses
IsSpace(c) == c = " "

\* re.IGNORECASE on the letters of the pattern ("to")
Lower(c) == IF c = "T" THEN "t" ELSE IF c = "O" THEN "o" ELSE c

\* s[i:] of Python, i counted from 1
From(s0, i0) == Only({SubSeq(s, i, Len(s)) : s \in {s0}, i \in {i0}})

\* whether pat occurs in s at position i
StartsWithAt(s0, i0, pat0) ==
    \E s \in {s0}, i \in {i0}, pat \in {pat0} :
        /\ i + Len(pat) - 1 <= Len(s)
        /\ \A k \in 1..Len(pat) : s[i + k - 1] = pat[k]

\* the part of s between its first and its last character in keep
Between(s, keep0) ==
    Only({IF keep = {} THEN <<>> ELSE SubSeq(s, MinOf(keep), MaxOf(keep)) :
          keep \in {keep0}})

\* str.strip()
Strip(s0) ==
    Only({Between(s, {i \in 1..Len(s) : ~IsSpace(s[i])}) : s \in {s0}})

\* str.replace(pat, rep) from position i on: the non-overlapping occurrences
\* of pat, found left to right, are replaced
RECURSIVE ReplaceFrom(_, _, _, _)
ReplaceFrom(s0, i0, pat0, rep0) ==
    Only({IF i > Len(s) THEN <<>>
          ELSE IF StartsWithAt(s, i, pat)
               THEN rep \o ReplaceFrom(s, i + Len(pat), pat, rep)
               ELSE <<s[i]>> \o ReplaceFrom(s, i + 1, pat, rep) :
          s \in {s0}, i \in {i0}, pat \in {pat0}, rep \in {rep0}})

\* str.replace(pat, rep)
Replace(s, pat, rep) == ReplaceFrom(s, 1, pat, rep)

\* str.split(sep) for a one-character separator: "a,,b" gives three fields
\* and "" gives one empty field
RECURSIVE SplitAt(_, _, _)
SplitAt(s0, sep0, at0) ==
    Only({IF at = {} THEN <<s>>
          ELSE <<SubSeq(s, 1, MinOf(at) - 1)>>
               \o SplitAt(From(s, MinOf(at) + 1), sep,
                          {i - MinOf(at) : i \in at \ {MinOf(at)}}) :
          s \in {s0}, sep \in {sep0}, at \in {at0}})

Split(s0, sep0) ==
    Only({SplitAt(s, sep, {i \in 1..Len(s) : s[i] = sep}) :
          s \in {s0}, sep \in {sep0}})

\* " ".join(tokens)
RECURSIVE JoinSpace(_)
JoinSpace(tokens0) ==
    Only({IF tokens = <<>> THEN <<>>
          ELSE IF Len(tokens) = 1 THEN tokens[1]
          ELSE tokens[1] \o <<" ">> \o JoinSpace(Tail(tokens)) :
          tokens \in {tokens0}})

RECURSIVE Concat(_)
Concat(ps0) ==
    Only({IF ps = <<>> THEN <<>> ELSE Head(ps) \o Concat(Tail(ps)) :
          ps \in {ps0}})

(***************************************************************************)
(* Floats                                                                  *)
(***************************************************************************)
\* Python's None where an Optional[float] is expected
NoFloat == [isNone |-> TRUE, neg |-> FALSE, ip |-> <<>>, fp |-> <<>>]

\* ds without its leading zeros
DropLeadingZeros(ds0) ==
    Only({IF \A i \in 1..Len(ds) : ds[i] = "0" THEN <<>>
          ELSE From(ds, MinOf({i \in 1..Len(ds) : ds[i] # "0"})) :
          ds \in {ds0}})

\* ds without its trailing zeros
DropTrailingZeros(ds0) ==
    Only({IF \A i \in 1..Len(ds) : ds[i] = "0" THEN <<>>
          ELSE SubSeq(ds, 1, MaxOf({i \in 1..Len(ds) : ds[i] # "0"})) :
          ds \in {ds0}})

\* the float with integer digits ip and fraction digits fp
MkFloat(neg, ip, fp) ==
    Only({[isNone |-> FALSE, neg |-> neg /\ (i # <<>> \/ f # <<>>),
           ip |-> i, fp |-> f] :
          i \in {DropLeadingZeros(ip)}, f \in {DropTrailingZeros(fp)}})

DigitVal(c) == (CHOOSE n \in 1..10 : DigitChars[n] = c) - 1

\* lexicographic order of two digit strings
DigitsLess(a0, b0) ==
    \E a \in {a0}, b \in {b0} :
        \E n \in 1..Len(b) :
            /\ \A k \in 1..(n - 1) : k <= Len(a) /\ a[k] = b[k]
            /\ (n > Len(a) \/ DigitVal(a[n]) < DigitVal(b[n]))

\* |a| < |b|
MagLess(a0, b0) ==
    \E a \in {a0}, b \in {b0} :
        \/ Len(a.ip) < Len(b.ip)
        \/ Len(a.ip) = Len(b.ip) /\ DigitsLess(a.ip, b.ip)
        \/ a.ip = b.ip /\ DigitsLess(a.fp, b.fp)

\* a < b on floats
FloatLess(a0, b0) ==
    \E a \in {a0}, b \in {b0} :
        IF a.neg # b.neg THEN a.neg
        ELSE IF a.neg THEN MagLess(b, a) ELSE MagLess(a, b)

\* the float of an unsigned numeral u, NoFloat when u is no numeral
ParseUnsigned(neg, u0) ==
    Only({IF ~(/\ \A i \in 1..Len(u) : IsDigit(u[i]) \/ u[i] = "."
               /\ Cardinality({i \in 1..Len(u) : u[i] = "."}) <= 1
               /\ \E i \in 1..Len(u) : IsDigit(u[i]))
          THEN NoFloat
          ELSE IF \A i \in 1..Len(u) : u[i] # "." THEN MkFloat(neg, u, <<>>)
          ELSE MkFloat(neg,
                       SubSeq(u, 1, MinOf({i \in 1..Len(u) : u[i] = "."}) - 1),
                       From(u, MinOf({i \in 1..Len(u) : u[i] = "."}) + 1)) :
          u \in {u0}})

\* float(s) on a string: surrounding whitespace is ignored, an optional sign,
\* then digits with an optional point and at least one digit.  Anything else
\* raises ValueError, modelled as NoFloat (the caller catches it).  The
\* exponent, inf/nan and underscore spellings of float() are not spelled by
\* any string the callers pass (they pass groups of \d+(\.\d+)?).
ParseFloat(str) ==
    Only({IF t # <<>> /\ t[1] \in {"-", "+"}
          THEN ParseUnsigned(t[1] = "-", Tail(t))
          ELSE ParseUnsigned(FALSE, t) :
          t \in {Strip(str)}})

\* to_float(x) for x a string (a regex group)
to_float(x0) ==
    Only({IF Strip(x) = <<>> THEN NoFloat
          ELSE ParseFloat(Strip(Replace(Replace(x, <<"$">>, <<>>),
                                        <<",">>, <<>>))) :
          x \in {x0}})

(***************************************************************************)
(* Regular expressions of parse_budget_range                               *)
(***************************************************************************)
\* number of consecutive digits of s from position i
DigitRun(s0, i0) ==
    Only({CHOOSE n \in 0..(Len(s) - i + 1) :
              /\ \A k \in i..(i + n - 1) : IsDigit(s[k])
              /\ (i + n > Len(s) \/ ~IsDigit(s[i + n])) :
          s \in {s0}, i \in {i0}})

\* number of consecutive whitespace characters of s from position i
SpaceRun(s0, i0) ==
    Only({CHOOSE n \in 0..(Len(s) - i + 1) :
              /\ \A k \in i..(i + n - 1) : IsSpace(s[k])
              /\ (i + n > Len(s) \/ ~IsSpace(s[i + n])) :
          s \in {s0}, i \in {i0}})

\* the fraction (\.\d+)? after the n > 0 digits of s at position i
FractionAt(s, i, n) ==
    Only({IF m > 0 THEN [ok |-> TRUE, dot |-> i + n, end |-> i + n + 1 + m]
          ELSE [ok |-> TRUE, dot |-> 0, end |-> i + n] :
          m \in {IF i + n < Len(s) /\ s[i + n] = "."
                 THEN DigitRun(s, i + n + 1) ELSE 0}})

\* \d+(\.\d+)? matched greedily at position i: [ok, dot, end] where the
\* match is s[i..end-1] and, when the group (\.\d+) took part, it is
\* s[dot..end-1]; dot = 0 when the group did not take part
NumberAt(s0, i0) ==
    Only({IF n = 0 THEN [ok |-> FALSE, dot |-> 0, end |-> i]
          ELSE FractionAt(s, i, n) :
          s \in {s0}, i \in {i0},
          n \in {IF i0 <= Len(s0) THEN DigitRun(s0, i0) ELSE 0}})

\* (?:-|to|EnDash|EmDash|\.\.) at position i: the length matched, 0 for none
SeparatorAt(s0, i0) ==
    Only({IF i > Len(s) THEN 0
          ELSE IF s[i] \in {"-", EnDash, EmDash} THEN 1
          ELSE IF i < Len(s) /\ Lower(s[i]) = "t" /\ Lower(s[i + 1]) = "o"
               THEN 2
          ELSE IF i < Len(s) /\ s[i] = "." /\ s[i + 1] = "." THEN 2
          ELSE 0 :
          s \in {s0}, i \in {i0}})

NoRange == [ok |-> FALSE, min |-> <<>>, max |-> <<>>]

\* the second number of RANGE_PATTERN at position c, after the first number
\* s[i..a-1]
RangeSecond(s, i, a, c0) ==
    Only({IF hi.ok
          THEN [ok |-> TRUE, min |-> SubSeq(s, i, a - 1),
                max |-> SubSeq(s, c, hi.end - 1)]
          ELSE NoRange :
          c \in {c0}, hi \in {NumberAt(s, c0)}})

\* the rest of RANGE_PATTERN after its first number s[i..a-1] and the
\* whitespace s[a..b-1]: the separator, whitespace, the second number
RangeAfter(s, i, a, b0) ==
    Only({IF sep = 0 THEN NoRange
          ELSE RangeSecond(s, i, a, b + sep + SpaceRun(s, b + sep)) :
          b \in {b0}, sep \in {SeparatorAt(s, b0)}})

\* RANGE_PATTERN matched at position i.  The greedy choices are the only
\* ones that can succeed: after a shorter run of digits the next character
\* is a digit, after a dropped fraction it is a point followed by a digit,
\* after a shorter run of whitespace it is whitespace, and none of these
\* starts what the pattern asks for next.
RangeAt(s0, i0) ==
    Only({IF lo.ok
          THEN RangeAfter(s, i, lo.end, lo.end + SpaceRun(s, lo.end))
          ELSE NoRange :
          s \in {s0}, i \in {i0}, lo \in {NumberAt(s0, i0)}})

\* RANGE_PATTERN.search(s): the match at the leftmost position that has one
RangeSearch(s0) ==
    Only({IF at = {} THEN NoRange ELSE RangeAt(s0, MinOf(at)) :
          at \in {{i \in 1..Len(s0) : RangeAt(s0, i).ok}}})

\* re.findall(r"\d+(\.\d+)?", s) from position i: the pattern has one group,
\* so findall returns, for each match, the text of that group (the fraction
\* with its point), or "" when the group did not take part
RECURSIVE FindAllFrom(_, _)
FindAllFrom(s0, i0) ==
    Only({IF i > Len(s) THEN <<>>
          ELSE IF ~m.ok THEN FindAllFrom(s, i + 1)
          ELSE <<IF m.dot = 0 THEN <<>> ELSE SubSeq(s, m.dot, m.end - 1)>>
               \o FindAllFrom(s, m.end) :
          s \in {s0}, i \in {i0}, m \in {NumberAt(s0, i0)}})

FindAllNumbers(s) == FindAllFrom(s, 1)

(***************************************************************************)
(* Python values of a form payload                                         *)
(***************************************************************************)
\* A JSON value of a payload: None, a string, an integer or a list of
\* strings.  v holds the texts: one for a string or an integer (its decimal
\* digits), the elements for a list.
NoneVal == [t |-> "none", v |-> <<>>]
StrVal(s) == [t |-> "str", v |-> <<s>>]
IntVal(digits) == [t |-> "int", v |-> <<digits>>]
ListVal(elems) == [t |-> "list", v |-> elems]

\* repr(list of str) without its brackets: no element of the model holds a
\* quote, a backslash or an unprintable character, so each is quoted as it
\* stands
RECURSIVE ReprElems(_)
ReprElems(elems0) ==
    Only({IF elems = <<>> THEN <<>>
          ELSE <<"'">> \o Head(elems) \o <<"'">>
               \o (IF Len(elems) > 1 THEN <<",", " ">> ELSE <<>>)
               \o ReprElems(Tail(elems)) :
          elems \in {elems0}})

\* str(x)
PyStr(x0) ==
    Only({IF x.t = "none" THEN <<"N", "o", "n", "e">>
          ELSE IF x.t = "list" THEN <<"[">> \o ReprElems(x.v) \o <<"]">>
          ELSE x.v[1] :
          x \in {x0}})

\* bool(x): None, "", 0 and [] are false
Truthy(x0) ==
    \E x \in {x0} :
        IF x.t = "none" THEN FALSE
        ELSE IF x.t = "str" THEN x.v[1] # <<>>
        ELSE IF x.t = "int" THEN DropLeadingZeros(x.v[1]) # <<>>
        ELSE x.v # <<>>

(***************************************************************************)
(* parse_budget_range                                                      *)
(***************************************************************************)
\* s.replace("$", "").replace("USD", "").replace("usd", "").replace("dollars", "")
StripCurrency(s) ==
    Replace(Replace(Replace(Replace(s, <<"$">>, <<>>),
                            <<"U", "S", "D">>, <<>>),
                    <<"u", "s", "d">>, <<>>),
            <<"d", "o", "l", "l", "a", "r", "s">>, <<>>)

\* the mutant of OrderBounds that forgets the swap
OrderBounds_NoSwap(lo, hi) == <<lo, hi>>

\* if lo is not None and hi is not None and lo > hi: lo, hi = hi, lo
OrderBounds(lo, hi) ==
    Only({IF ~l.isNone /\ ~h.isNone /\ FloatLess(h, l) THEN <<h, l>>
          ELSE <<l, h>> :
          l \in {lo}, h \in {hi}})

\* nums = re.findall(...); if len(nums) == 1: return None, to_float(nums[0])
SingleNumber(s) ==
    Only({IF Len(nums) = 1 THEN <<NoFloat, to_float(nums[1])>>
          ELSE <<NoFloat, NoFloat>> :
          nums \in {FindAllNumbers(s)}})

\* parse_budget_range after the currency words are stripped
ParseStripped(s0) ==
    Only({IF m.ok THEN OrderBounds(to_float(m.min), to_float(m.max))
          ELSE SingleNumber(s) :
          s \in {s0}, m \in {RangeSearch(s0)}})

\* parse_budget_range(raw): the pair (lo, hi)
parse_budget_range(raw) ==
    Only({IF x.t = "none" THEN <<NoFloat, NoFloat>>
          ELSE ParseStripped(StripCurrency(PyStr(x))) :
          x \in {raw}})

(***************************************************************************)
(* Budget texts                                                            *)
(***************************************************************************)
P_50      == <<"5", "0">>
P_100     == <<"1", "0", "0">>
P_75      == <<"7", "5">>
P_D50     == <<"$", "5", "0">>
P_Frac    == <<".", "5">>
P_Dash    == <<"-">>
P_To      == <<" ", "T", "O", " ">>
P_Dots    == <<".", ".">>
P_EnDash  == <<EnDash>>
P_Under   == <<"u", "n", "d", "e", "r", " ">>
P_Dollars == <<" ", "d", "o", "l", "l", "a", "r", "s">>
P_USD     == <<"U", "S", "D">>

BudgetPieces ==
    {P_50, P_100, P_75, P_D50, P_Frac, P_Dash, P_To, P_Dots, P_EnDash,
     P_Under, P_Dollars, P_USD}

\* the sequences of at most MaxPieces pieces
PieceLists == UNION {[1..n -> BudgetPieces] : n \in 0..MaxPieces}

\* the texts parse_budget_range is given: the pieces put end to end
BudgetTexts == {Concat(ps) : ps \in PieceLists}

\* ... and None
BudgetInputs == {NoneVal} \cup {StrVal(s) : s \in BudgetTexts}

(***************************************************************************)
(* Form payloads                                                           *)
(***************************************************************************)
\* A mapping is a function from the keys the model's payloads may carry to
\* values; a key that is not in the mapping maps to Missing.
Missing == [t |-> "missing", v |-> <<>>]

\* every key build_query_from_form looks up, and one it does not ("note")
AllKeys ==
    {"recipient_namenickname", "recipient_name", "recipient",
     "relationship_to_you", "relationship", "age_range",
     "genderpronouns", "gender_pronouns", "gender", "occasion",
     "hobbiesinterests", "hobbies", "interests",
     "favorite_brandsstores", "favorite_brands", "brand_likes",
     "favorite_colorsstyles", "favorite_colors", "style",
     "anything_they_dont_like__avoid", "dislikes", "avoid",
     "gift_type_preference", "gift_type", "locationcity", "city",
     "budget_range", "budget", "note"}

EmptyMapping == [k \in AllKeys |-> Missing]

\* A raw payload is its top-level entries other than "contact" (top) and its
\* "contact" entry: kind "missing" (no such key), "dict" (a sub-mapping, m)
\* or "scalar" (any other value, val).
NoContact == [kind |-> "missing", m |-> EmptyMapping, val |-> NoneVal]

\* k in payload
Has(m, k) == k \in DOMAIN m /\ m[k].t # "missing"

\* "contact" in raw and isinstance(raw["contact"], dict)
ContactIsDict(raw_form) == raw_form.contact.kind = "dict"

\* the mutant of Merge in which the contact values win on collision
Merge_ContactWins(base, over) ==
    [k \in AllKeys |-> IF Has(base, k) THEN base[k] ELSE over[k]]

\* base = dict(contact); base.update(top-level entries other than "contact")
Merge(base, over) ==
    [k \in AllKeys |-> IF Has(over, k) THEN over[k] ELSE base[k]]

\* flatten_payload(raw): a new mapping when raw["contact"] is a dict, else raw
flatten_payload(raw_form) ==
    Only({IF ContactIsDict(raw)
          THEN [top |-> Merge(raw.contact.m, raw.top), contact |-> NoContact]
          ELSE raw :
          raw \in {raw_form}})

\* payload[k] not in (None, "")
Provided(x) == ~(x.t = "none" \/ (x.t = "str" /\ x.v[1] = <<>>))

\* pick(payload, *keys): the value of the first key that is present with a
\* value other than None and "", else None
pick(payload, keys) ==
    Only({IF found = {} THEN NoneVal ELSE payload.top[keys[MinOf(found)]] :
          found \in {{i \in 1..Len(keys) :
                        /\ Has(payload.top, keys[i])
                        /\ Provided(payload.top[keys[i]])}}})

\* [x.strip() for x in xs if x.strip()]
RECURSIVE StripAndDrop(_)
StripAndDrop(xs0) ==
    Only({IF xs = <<>> THEN <<>>
          ELSE (IF Strip(xs[1]) = <<>> THEN <<>> ELSE <<Strip(xs[1])>>)
               \o StripAndDrop(Tail(xs)) :
          xs \in {xs0}})

\* coerce_to_list(v)
coerce_to_list(x0) ==
    Only({IF x.t = "none" THEN <<>>
          ELSE IF x.t = "list" THEN StripAndDrop(x.v)
          ELSE StripAndDrop(Split(Replace(PyStr(x), <<";">>, <<",">>), ",")) :
          x \in {x0}})

\* the tokens one part of join_terms contributes
PartTokens(p0) ==
    Only({IF p.t = "none" THEN <<>>
          ELSE IF p.t = "list" THEN StripAndDrop(p.v)
          ELSE StripAndDrop(Split(PyStr(p), ",")) :
          p \in {p0}})

RECURSIVE AllTokens(_)
AllTokens(parts0) ==
    Only({IF parts = <<>> THEN <<>>
          ELSE PartTokens(parts[1]) \o AllTokens(Tail(parts)) :
          parts \in {parts0}})

\* join_terms(*parts)
join_terms(parts) == JoinSpace(AllTokens(parts))

\* [f"not {d}" for d in dislikes]
NotEach(ds0) ==
    Only({[i \in 1..Len(ds) |-> <<"n", "o", "t", " ">> \o ds[i]] :
          ds \in {ds0}})

GiftIdeas == <<"g", "i", "f", "t", " ", "i", "d", "e", "a", "s">>

\* the mutant of SoftTerms that lists the dislikes first
SoftTerms_DislikesFirst(age_range, gender, location_city, dislikes) ==
    NotEach(dislikes)
    \o (IF Truthy(age_range) THEN <<PyStr(age_range)>> ELSE <<>>)
    \o (IF Truthy(gender) THEN <<PyStr(gender)>> ELSE <<>>)
    \o (IF Truthy(location_city) THEN <<PyStr(location_city)>> ELSE <<>>)

\* soft_terms of build_query_from_form
SoftTerms(age_range, gender, location_city, dislikes) ==
    (IF Truthy(age_range) THEN <<PyStr(age_range)>> ELSE <<>>)
    \o (IF Truthy(gender) THEN <<PyStr(gender)>> ELSE <<>>)
    \o (IF Truthy(location_city) THEN <<PyStr(location_city)>> ELSE <<>>)
    \o NotEach(dislikes)

\* q = join_terms(relationship, occasion, hobbies_interests, ...)
PrimaryTerms(f) ==
    join_terms(<<f.relationship, f.occasion, ListVal(f.hobbies_interests),
                 ListVal(f.favorite_brands),
                 ListVal(f.favorite_colors_styles), f.gift_type_preference>>)

\* if soft_terms: q = f"{q} " + " ".join(soft_terms)
WithSoftTerms(q0, soft0) ==
    Only({IF soft # <<>> THEN q \o <<" ">> \o JoinSpace(soft) ELSE q :
          q \in {q0}, soft \in {soft0}})

\* the mutant of Fallback that returns the query as it stands
Fallback_None(q) == q

\* if not q.strip(): q = "gift ideas"; ... "q": q.strip()
Fallback(q0) ==
    Only({IF q = <<>> THEN GiftIdeas ELSE q : q \in {Strip(q0)}})

\* the fields build_query_from_form extracts from the flattened form
ExtractFields(form0) ==
    Only({[recipient |->
              pick(form, <<"recipient_namenickname", "recipient_name",
                           "recipient">>),
           relationship |-> pick(form, <<"relationship_to_you",
                                         "relationship">>),
           age_range |-> pick(form, <<"age_range">>),
           gender |-> pick(form, <<"genderpronouns", "gender_pronouns",
                                   "gender">>),
           occasion |-> pick(form, <<"occasion">>),
           hobbies_interests |->
              coerce_to_list(pick(form, <<"hobbiesinterests", "hobbies",
                                          "interests">>)),
           favorite_brands |->
              coerce_to_list(pick(form, <<"favorite_brandsstores",
                                          "favorite_brands", "brand_likes">>)),
           favorite_colors_styles |->
              coerce_to_list(pick(form, <<"favorite_colorsstyles",
                                          "favorite_colors", "style">>)),
           dislikes |->
              coerce_to_list(pick(form, <<"anything_they_dont_like__avoid",
                                          "dislikes", "avoid">>)),
           gift_type_preference |-> pick(form, <<"gift_type_preference",
                                                 "gift_type">>),
           location_city |-> pick(form, <<"locationcity", "city">>),
           budget_range_raw |-> pick(form, <<"budget_range", "budget">>)] :
          form \in {form0}})

\* the query string of build_query_from_form for the extracted fields
QueryOf(f) ==
    Fallback(WithSoftTerms(
        PrimaryTerms(f),
        SoftTerms(f.age_range, f.gender, f.location_city, f.dislikes)))

\* build_query_from_form(raw_form)
build_query_from_form(raw_form) ==
    Only({[q |-> QueryOf(f),
           price_min |-> budget[1],
           price_max |-> budget[2],
           raw_mapping |->
              [budget_min |-> budget[1], budget_max |-> budget[2]] @@ f] :
          <<f, budget>> \in
              {<<x, parse_budget_range(x.budget_range_raw)>> :
               x \in {ExtractFields(flatten_payload(raw_form))}}})


(***************************************************************************)
(* The payloads the model submits                                          *)
(***************************************************************************)
\* a payload carries at most MaxFields entries, counted over its top level
\* and its contact sub-mapping
MaxFields == 2

\* the keys the enumerated payloads draw from
EnumKeys ==
    {"relationship", "hobbies", "gift_type", "age_range", "city",
     "dislikes", "budget", "note"}

\* one letter per key, lower case at the top level and upper case in
\* contact, so that a term of the query tells where it came from
TopTag == [relationship |-> "r", hobbies |-> "h", gift_type |-> "g",
           age_range |-> "a", city |-> "c", dislikes |-> "d",
           budget |-> "b", note |-> "x"]
ContactTag == [relationship |-> "R", hobbies |-> "H", gift_type |-> "G",
               age_range |-> "A", city |-> "C", dislikes |-> "D",
               budget |-> "B", note |-> "X"]

Shapes == {"multi", "blank", "empty", "none", "list"}

\* the value of the given shape for key k at the top level or in contact
ShapeVal(k, loc, shape) ==
    LET c == IF loc = "top" THEN TopTag[k] ELSE ContactTag[k]
        range == IF loc = "top" THEN P_100 \o P_Dash \o P_50
                 ELSE P_50 \o P_Dots \o P_75
    IN  CASE shape = "none" -> NoneVal
          [] shape = "empty" -> StrVal(<<>>)
          [] shape = "blank" -> StrVal(<<" ">>)
          [] shape = "multi" ->
                IF k = "budget" THEN StrVal(range)
                ELSE StrVal(<<" ", c, ",", c, c, ";", c, " ">>)
          [] OTHER ->
                IF k = "budget" THEN ListVal(<<range>>)
                ELSE ListVal(<<<<c, " ">>, <<" ">>, <<c, c>>>>)

Slots == EnumKeys \X {"top", "contact"}

\* the payload with the entries S, shaped by f, and the given kind of
\* "contact" entry
MkPayload(S, f, kind) ==
    [top |-> [k \in AllKeys |->
                IF <<k, "top">> \in S
                THEN ShapeVal(k, "top", f[<<k, "top">>]) ELSE Missing],
     contact |->
        [kind |-> kind,
         m |-> [k \in AllKeys |->
                  IF <<k, "contact">> \in S
                  THEN ShapeVal(k, "contact", f[<<k, "contact">>])
                  ELSE Missing],
         val |-> IF kind = "scalar" THEN StrVal(<<"x">>) ELSE NoneVal]]

ContactKinds(S) ==
    IF \E k \in EnumKeys : <<k, "contact">> \in S THEN {"dict"}
    ELSE {"missing", "dict", "scalar"}


EmptyPayload == [top |-> EmptyMapping, contact |-> NoContact]

\* {"hobbies": "chess, reading", "budget": "$20-40", "occasion": "birthday"}
EndToEndPayload ==
    [top |-> [EmptyMapping EXCEPT
        !["hobbies"] = StrVal(<<"c", "h", "e", "s", "s", ",", " ",
                                "r", "e", "a", "d", "i", "n", "g">>),
        !["budget"] = StrVal(<<"$", "2", "0", "-", "4", "0">>),
        !["occasion"] = StrVal(<<"b", "i", "r", "t", "h", "d", "a", "y">>)],
     contact |-> NoContact]

\* a payload with every term of the query present, two of them by a second
\* alias, an integer and a list among the soft terms, and a contact mapping
FullPayload ==
    [top |-> [EmptyMapping EXCEPT
        !["relationship_to_you"] = StrVal(<<>>),
        !["relationship"] = StrVal(<<"r">>),
        !["occasion"] = StrVal(<<"o">>),
        !["interests"] = StrVal(<<"h", ";", "i">>),
        !["favorite_brands"] = ListVal(<<<<"f">>>>),
        !["style"] = StrVal(<<"s">>),
        !["gift_type"] = StrVal(<<"g", ",", "t">>),
        !["age_range"] = IntVal(<<"3", "0">>),
        !["gender"] = ListVal(<<<<"m">>, <<"n">>>>),
        !["dislikes"] = StrVal(<<"d", ",", "e">>),
        !["budget_range"] = NoneVal,
        !["budget"] = IntVal(<<"7", "5">>)],
     contact |->
        [kind |-> "dict",
         m |-> [EmptyMapping EXCEPT
            !["city"] = StrVal(<<"C">>),
            !["relationship"] = StrVal(<<"R">>),
            !["age_range"] = IntVal(<<"0">>)],
         val |-> NoneVal]]



\* the payload of the given entries, and with it, for the choice of no
\* entries, the two sample payloads
PayloadsOf(S, f, kind) ==
    {MkPayload(S, f, kind)}
    \cup (IF S = {} /\ kind = "missing"
          THEN {EndToEndPayload, FullPayload} ELSE {})

(***************************************************************************)
(* The token cache, the upstream calls and the handlers                    *)
(***************************************************************************)
\* the service receives at most MaxRequests requests
MaxRequests == 3
\* the clock advances at most MaxTicks times
MaxTicks == 2

\* Two threads of the service, each handling one request at a time: the
\* framework runs suggest on a worker thread per request, and ghl_suggest on
\* the event loop's thread.
Workers == {1, 2}

\* the safety margin of get_ebay_oauth_token, in seconds
Margin == 60
\* expires_in when the token response has none
DefaultExpiresIn == 7200

\* seconds by which the clock advances between two steps
TickSteps == {60}

\* _OAUTH_CACHE without its "app_token" entry
EmptyCache == [present |-> FALSE, tok |-> 0, exp |-> 0]

\* what requests.post to the token endpoint can give: an HTTP response
\* (status; whether the JSON body has access_token and expires_in) or a
\* transport failure (an exception of requests)
NoResponse ==
    [kind |-> "none", status |-> 0, has_token |-> FALSE,
     has_expires |-> FALSE, expires_in |-> 0]
OAuthOutcomes ==
    {[kind |-> "http", status |-> 200, has_token |-> TRUE,
      has_expires |-> e > 0, expires_in |-> e] : e \in {0, 120, 121}}
    \cup {[kind |-> "http", status |-> 200, has_token |-> FALSE,
           has_expires |-> FALSE, expires_in |-> 0]}
    \cup {[kind |-> "http", status |-> 401, has_token |-> FALSE,
           has_expires |-> FALSE, expires_in |-> 0]}
    \cup {[kind |-> "transport", status |-> 0, has_token |-> FALSE,
           has_expires |-> FALSE, expires_in |-> 0]}

\* what requests.get to the search endpoint can give: an HTTP response
\* (status; whether the body is a JSON object, whether it has itemSummaries
\* and how many, whether it has errors) or a transport failure
NoSearch ==
    [kind |-> "none", status |-> 0, json |-> FALSE, has_items |-> FALSE,
     n_items |-> 0, has_errors |-> FALSE]
SearchOutcomes ==
    {[kind |-> "http", status |-> 200, json |-> TRUE, has_items |-> TRUE,
      n_items |-> 2, has_errors |-> FALSE]}
    \cup {[kind |-> "http", status |-> 200, json |-> TRUE, has_items |-> FALSE,
           n_items |-> 0, has_errors |-> TRUE]}
    \cup {[kind |-> "http", status |-> 200, json |-> FALSE, has_items |-> FALSE,
           n_items |-> 0, has_errors |-> FALSE]}
    \cup {[kind |-> "http", status |-> 404, json |-> TRUE, has_items |-> FALSE,
           n_items |-> 0, has_errors |-> TRUE]}
    \cup {[kind |-> "transport", status |-> 0, json |-> FALSE,
           has_items |-> FALSE, n_items |-> 0, has_errors |-> FALSE]}

\* the payloads the handlers are sent
HandlerPayloads == {EndToEndPayload}

\* build_query_from_form of each of them
BuiltOf == [p \in HandlerPayloads |-> build_query_from_form(p)]

Handlers == {"suggest", "ghl_suggest"}

\* no response sent yet
NoReply == [status |-> 0, ok |-> FALSE, has_items |-> FALSE, items |-> 0,
            note |-> ""]

\* raise HTTPException(status_code=...), re-raised by the handler, or an
\* exception the handler turns into HTTPException(500)
ErrorReply(status) ==
    [status |-> status, ok |-> FALSE, has_items |-> FALSE, items |-> 0,
     note |-> ""]

\* SuggestionResponse(ok=True, query=built, items=items[, note="ghl webhook"])
OkReply(handler, n) ==
    [status |-> 200, ok |-> TRUE, has_items |-> TRUE, items |-> n,
     note |-> IF handler = "ghl_suggest" THEN "ghl webhook" ELSE ""]

\* a thread before its first request: the handler's position, its local
\* variables (q and filter of the search; now, the cache entry read and the
\* token of get_ebay_oauth_token; the responses of the two calls), the calls
\* it has sent for the request, and the reply to the request.  The local
\* variables go when the function that holds them returns or raises.
IdleRequest ==
    [pc |-> "idle", handler |-> "none", q |-> <<>>, filter |-> "none",
     now |-> 0, seen |-> EmptyCache, token |-> 0,
     oauth |-> NoResponse, search |-> NoSearch,
     exchanges |-> 0, searches |-> 0, reply |-> NoReply]

(***************************************************************************)
(* State                                                                   *)
(***************************************************************************)
VARIABLES
    raw,      \* the argument of parse_budget_range
    parsed,   \* its result: [done, lo, hi]
    form,     \* the argument of build_query_from_form
    built,    \* its result: [done, res]
    cache,    \* _OAUTH_CACHE["app_token"]: [present, tok, exp]
    clock,    \* time.time(), in seconds
    ticks,    \* how many times the clock has advanced
    received, \* how many requests the service has received
    issued,   \* how many token requests the provider has received
    req       \* per thread: the request it handles

vars == <<raw, parsed, form, built, cache, clock, ticks, received, issued, req>>
pureVars == <<raw, parsed, form, built>>
serviceVars == <<cache, clock, ticks, received, issued, req>>

Pending == [done |-> FALSE, lo |-> NoFloat, hi |-> NoFloat]
NotBuilt == [done |-> FALSE, res |-> build_query_from_form(EmptyPayload)]

PureIdle ==
    /\ raw = NoneVal
    /\ parsed = Pending
    /\ form = EmptyPayload
    /\ built = NotBuilt

ServiceIdle ==
    /\ cache = EmptyCache
    /\ clock = 0
    /\ ticks = 0
    /\ received = 0
    /\ issued = 0
    /\ req = [r \in Workers |-> IdleRequest]

(***************************************************************************)
(* parse_budget_range applied to budget texts                              *)
(***************************************************************************)
\* the payload whose only entry is the budget, under one of its aliases
BudgetAliases == {"budget_range", "budget"}
BudgetPayload(alias, x) ==
    [top |-> [EmptyMapping EXCEPT ![alias] = x], contact |-> NoContact]

InitBudget ==
    /\ raw \in BudgetInputs
    /\ parsed = Pending
    /\ \E alias \in BudgetAliases : form = BudgetPayload(alias, raw)
    /\ built = NotBuilt
    /\ ServiceIdle

\* budget_min, budget_max = parse_budget_range(raw)
ParseBudget ==
    /\ ~parsed.done
    /\ parsed' = Only({[done |-> TRUE, lo |-> r[1], hi |-> r[2]] :
                        r \in {parse_budget_range(raw)}})
    /\ UNCHANGED <<raw, form, built, serviceVars>>

\* built = build_query_from_form(form)
BuildQuery ==
    /\ ~built.done
    /\ built' = [done |-> TRUE, res |-> build_query_from_form(form)]
    /\ UNCHANGED <<raw, parsed, form, serviceVars>>

NextBudget == ParseBudget \/ BuildQuery

SpecBudget == InitBudget /\ [][NextBudget]_vars

(***************************************************************************)
(* build_query_from_form applied to payloads                               *)
(***************************************************************************)
InitQuery ==
    /\ \E S \in {T \in SUBSET Slots : Cardinality(T) <= MaxFields} :
         \E f \in [S -> Shapes] :
            \E kind \in ContactKinds(S) :
               form \in PayloadsOf(S, f, kind)
    /\ built = NotBuilt
    /\ raw = NoneVal
    /\ parsed = Pending
    /\ ServiceIdle

NextQuery == BuildQuery

SpecQuery == InitQuery /\ [][NextQuery]_vars


(***************************************************************************)
(* The service: requests handled in parallel                               *)
(***************************************************************************)
InFlight(r) == req[r].pc \notin {"idle", "done"}

\* suggest runs on a worker thread per request; ghl_suggest is a coroutine
\* that never awaits after reading its body, so the event loop runs one
\* ghl_suggest at a time
MayStart(r, handler) ==
    handler = "ghl_suggest" =>
        \A o \in Workers \ {r} :
            ~(req[o].handler = "ghl_suggest" /\ InFlight(o))

\* the filter parameter of call_ebay_browse_search
PriceFilter(price_min, price_max) ==
    IF ~price_min.isNone /\ ~price_max.isNone THEN "min..max"
    ELSE IF ~price_min.isNone THEN "min.."
    ELSE IF ~price_max.isNone THEN "..max"
    ELSE "none"

\* A request arrives and its handler runs up to the first line of
\* get_ebay_oauth_token: the query is built from the payload and the clock
\* is read.  The free thread of the lowest number takes the request.
Receive(r, handler, payload) ==
    /\ ~InFlight(r)
    /\ \A o \in Workers : o < r => InFlight(o)
    /\ received < MaxRequests
    /\ MayStart(r, handler)
    /\ received' = received + 1
    /\ LET b == BuiltOf[payload]
       IN  req' = [req EXCEPT ![r] =
                [IdleRequest EXCEPT !.pc = "check", !.handler = handler,
                    !.q = b.q,
                    !.filter = PriceFilter(b.price_min, b.price_max),
                    !.now = clock]]
    /\ UNCHANGED <<pureVars, cache, clock, ticks, issued>>

\* the mutant of CacheFresh without the safety margin
CacheFresh_NoMargin(now, exp) == now < exp

\* now < exp - 60
CacheFresh(now, exp) == now < exp - Margin

\* if cache_key in _OAUTH_CACHE: tok, exp = ...; if now < exp - 60: return tok
CheckCache(r) ==
    /\ req[r].pc = "check"
    /\ req' = [req EXCEPT ![r] =
            IF cache.present /\ CacheFresh(req[r].now, cache.exp)
            THEN [@ EXCEPT !.pc = "search_call", !.now = 0,
                           !.token = cache.tok]
            ELSE [@ EXCEPT !.pc = "oauth_call", !.seen = cache]]
    /\ UNCHANGED <<pureVars, cache, clock, ticks, received, issued>>

\* resp = requests.post(token endpoint): the call is sent and its response
\* (or the exception of requests) comes back
Exchange(r, resp) ==
    /\ req[r].pc = "oauth_call"
    /\ issued' = issued + 1
    /\ req' = [req EXCEPT ![r] =
            [@ EXCEPT !.pc = "oauth_got", !.exchanges = @ + 1,
                      !.oauth = resp]]
    /\ UNCHANGED <<pureVars, cache, clock, ticks, received>>

\* the locals of get_ebay_oauth_token go when it returns or raises
TokenDone(rq) ==
    [rq EXCEPT !.now = 0, !.seen = EmptyCache,
               !.oauth = [@ EXCEPT !.has_expires = FALSE, !.expires_in = 0]]

\* the mutant of OnOAuthFailure that tries the exchange again
OnOAuthFailure_Retry(rq, status) == [rq EXCEPT !.pc = "oauth_call"]

\* the handler has replied: its locals go, the route of the request, the
\* calls sent for it and the reply stay
HandlerDone(rq, reply) ==
    [rq EXCEPT !.pc = "done", !.q = <<>>, !.filter = "none", !.token = 0,
               !.oauth = NoResponse, !.search = NoSearch, !.reply = reply]

\* raise HTTPException(status_code=502, ...) or, for an exception of
\* requests or a missing access_token, the handler's HTTPException(500)
OnOAuthFailure(rq, status) == HandlerDone(TokenDone(rq), ErrorReply(status))

\* the mutant of OAuthRejected that lets every status below 500 through
OAuthRejected_Only5xx(status) == status >= 500

\* if resp.status_code != 200
OAuthRejected(status) == status # 200

\* int(j.get("expires_in", 7200))
ExpiresIn(resp) ==
    IF resp.has_expires THEN resp.expires_in ELSE DefaultExpiresIn

\* the mutant of StoredEntry that leaves now out of the expiry
StoredEntry_NoNow(token, now, expires_in) ==
    [present |-> TRUE, tok |-> token, exp |-> expires_in]

\* _OAUTH_CACHE[cache_key] = (token, now + expires_in)
StoredEntry(token, now, expires_in) ==
    [present |-> TRUE, tok |-> token, exp |-> now + expires_in]

\* the rest of get_ebay_oauth_token after requests.post.  The provider
\* issues a fresh token on each exchange: the token is numbered by the
\* exchange that returned it.
FinishToken(r) ==
    /\ req[r].pc = "oauth_got"
    /\ LET resp == req[r].oauth
       IN  IF resp.kind = "transport"
           THEN /\ req' = [req EXCEPT ![r] = OnOAuthFailure(@, 500)]
                /\ UNCHANGED cache
           ELSE IF OAuthRejected(resp.status)
           THEN /\ req' = [req EXCEPT ![r] = OnOAuthFailure(@, 502)]
                /\ UNCHANGED cache
           ELSE IF ~resp.has_token
           THEN /\ req' = [req EXCEPT ![r] = OnOAuthFailure(@, 500)]
                /\ UNCHANGED cache
           ELSE /\ cache' = StoredEntry(issued, req[r].now, ExpiresIn(resp))
                /\ req' = [req EXCEPT ![r] =
                        [TokenDone(@) EXCEPT !.pc = "search_call",
                                             !.token = issued]]
    /\ UNCHANGED <<pureVars, clock, ticks, received, issued>>

\* r = requests.get(search endpoint) with the bearer token: the call is sent
\* and its response (or the exception of requests) comes back
Search(r, resp) ==
    /\ req[r].pc = "search_call"
    /\ req' = [req EXCEPT ![r] =
            [@ EXCEPT !.pc = "search_got", !.searches = @ + 1,
                      !.search = resp]]
    /\ UNCHANGED <<pureVars, cache, clock, ticks, received, issued>>

\* the mutant of SearchRejected that lets every status below 500 through
SearchRejected_Only5xx(status) == status >= 500

\* if r.status_code != 200
SearchRejected(status) == status # 200

\* len(data.get("itemSummaries", [])): one output item per record
ItemCount(body) == IF body.has_items THEN body.n_items ELSE 0

\* the reply of the handler for the response of the search call
ReplyFor(handler, resp) ==
    IF resp.kind = "transport" THEN ErrorReply(500)
    ELSE IF SearchRejected(resp.status) THEN ErrorReply(502)
    ELSE IF ~resp.json THEN ErrorReply(500)
    ELSE OkReply(handler, ItemCount(resp))

\* the rest of call_ebay_browse_search after requests.get, and of the
\* handler
FinishSearch(r) ==
    /\ req[r].pc = "search_got"
    /\ req' = [req EXCEPT ![r] =
            HandlerDone(@, ReplyFor(req[r].handler, req[r].search))]
    /\ UNCHANGED <<pureVars, cache, clock, ticks, received, issued>>

\* time passes
Tick(d) ==
    /\ ticks < MaxTicks
    /\ clock' = clock + d
    /\ ticks' = ticks + 1
    /\ UNCHANGED <<pureVars, cache, received, issued, req>>

Init == PureIdle /\ ServiceIdle

Next ==
    \/ \E r \in Workers, h \in Handlers, p \in HandlerPayloads :
          Receive(r, h, p)
    \/ \E r \in Workers : CheckCache(r)
    \/ \E r \in Workers, resp \in OAuthOutcomes : Exchange(r, resp)
    \/ \E r \in Workers : FinishToken(r)
    \/ \E r \in Workers, resp \in SearchOutcomes : Search(r, resp)
    \/ \E r \in Workers : FinishSearch(r)
    \/ \E d \in TickSteps : Tick(d)

Spec == Init /\ [][Next]_vars

(***************************************************************************)
(* Properties of parse_budget_range                                        *)
(***************************************************************************)
\* the decimal numbers standing in s from position i on, each in full, from
\* left to right
RECURSIVE StandaloneFrom(_, _)
StandaloneFrom(s0, i0) ==
    Only({IF i > Len(s) THEN <<>>
          ELSE IF ~m.ok THEN StandaloneFrom(s, i + 1)
          ELSE <<SubSeq(s, i, m.end - 1)>> \o StandaloneFrom(s, m.end) :
          s \in {s0}, i \in {i0}, m \in {NumberAt(s0, i0)}})

StandaloneNumbers(s) == StandaloneFrom(s, 1)

\* text that has no two-number range and exactly one standalone number
HasOneNumber(s0) ==
    \E s \in {StripCurrency(s0)} :
        ~RangeSearch(s).ok /\ Len(StandaloneNumbers(s)) = 1

OnlyNumber(s) == ParseFloat(StandaloneNumbers(StripCurrency(s))[1])

\* C2: for a text with no two-number range and exactly one standalone
\* decimal number v, parse_budget_range returns (absent, v)
C2_SingleNumberIsUpperBound ==
    (parsed.done /\ raw.t = "str" /\ HasOneNumber(raw.v[1])) =>
        (parsed.lo.isNone /\ parsed.hi = OnlyNumber(raw.v[1]))

Under75Dollars == StrVal(P_Under \o P_75 \o P_Dollars)

\* "under 75 dollars" has been parsed, and both bounds are absent
C2_Witness ==
    /\ parsed.done
    /\ raw = Under75Dollars
    /\ HasOneNumber(raw.v[1])
    /\ parsed.lo.isNone
    /\ parsed.hi.isNone

NumberPieces == {P_50, P_100, P_75}
SeparatorPieces == {P_Dash, P_To, P_Dots, P_EnDash}

\* the budget of the payload is a range of two numbers a and b
IsRangeOf(x, a, sep, b) == x = StrVal(a \o sep \o b)

\* the bounds build_query_from_form returns for a payload of only a budget
BoundsFor(x) ==
    Only({<<r.price_min, r.price_max>> :
          r \in {build_query_from_form(BudgetPayload("budget", x))}})

\* C3: when build_query_from_form returns both bounds, price_min <=
\* price_max; a range written high-then-low is returned low-then-high, as
\* the same range written low-then-high is
C3_BoundsOrdered ==
    built.done =>
        /\ (~built.res.price_min.isNone /\ ~built.res.price_max.isNone) =>
              ~FloatLess(built.res.price_max, built.res.price_min)
        /\ \A a \in NumberPieces, b \in NumberPieces, sep \in SeparatorPieces :
              (IsRangeOf(raw, a, sep, b) /\ FloatLess(ParseFloat(b), ParseFloat(a)))
                 => /\ built.res.price_min = ParseFloat(b)
                    /\ built.res.price_max = ParseFloat(a)
                    /\ <<built.res.price_min, built.res.price_max>>
                          = BoundsFor(StrVal(b \o sep \o a))

\* build_query_from_form has returned the bounds of "100-50"
C3_Witness ==
    /\ built.done
    /\ raw = StrVal(P_100 \o P_Dash \o P_50)
    /\ built.res.price_min = ParseFloat(P_50)
    /\ built.res.price_max = ParseFloat(P_100)


(***************************************************************************)
(* Properties of build_query_from_form                                     *)
(***************************************************************************)
\* the keys whose values can put a term into the query
QueryKeys ==
    {"relationship_to_you", "relationship", "occasion",
     "hobbiesinterests", "hobbies", "interests",
     "favorite_brandsstores", "favorite_brands", "brand_likes",
     "favorite_colorsstyles", "favorite_colors", "style",
     "gift_type_preference", "gift_type", "age_range",
     "genderpronouns", "gender_pronouns", "gender",
     "locationcity", "city",
     "anything_they_dont_like__avoid", "dislikes", "avoid"}

\* no entry, None, or a string of nothing but whitespace
Blank(x) ==
    \/ x.t \in {"missing", "none"}
    \/ x.t = "str" /\ \A i \in 1..Len(x.v[1]) : IsSpace(x.v[1][i])

\* the payload has k at its top level or in its contact mapping
Carries(p, k) == Has(p.top, k) \/ (ContactIsDict(p) /\ Has(p.contact.m, k))

\* every recognized field of the payload is missing or blank
NoTerms(p) ==
    \A k \in QueryKeys :
        Blank(p.top[k]) /\ (ContactIsDict(p) => Blank(p.contact.m[k]))

\* C4: build_query_from_form returns a query that is not empty and has no
\* whitespace at either end; for a payload whose recognized fields are all
\* missing or blank the query is "gift ideas"; without a budget alias both
\* bounds are absent
C4_QueryNeverEmpty ==
    built.done =>
        /\ built.res.q # <<>>
        /\ ~IsSpace(built.res.q[1])
        /\ ~IsSpace(built.res.q[Len(built.res.q)])
        /\ NoTerms(form) => built.res.q = GiftIdeas
        /\ (\A k \in BudgetAliases : ~Carries(form, k)) =>
              (built.res.price_min.isNone /\ built.res.price_max.isNone)

\* a payload whose only recognized field is blank has been given the
\* fallback query
C4_Witness ==
    /\ built.done
    /\ \E k \in QueryKeys : Has(form.top, k) /\ form.top[k] = StrVal(<<" ">>)
    /\ NoTerms(form)
    /\ built.res.q = GiftIdeas
    /\ built.res.price_min.isNone

\* the value the merged form has for k when the top level wins
Resolved(p, k) ==
    IF Has(p.top, k) THEN p.top[k]
    ELSE IF ContactIsDict(p) THEN p.contact.m[k]
    ELSE Missing

\* the payload without a contact mapping that has the resolved values
ResolvedPayload(p) ==
    [top |-> [k \in AllKeys |-> Resolved(p, k)], contact |-> NoContact]

\* C7: the fields are extracted from the payload as if each key had its
\* top-level value when it has one (an empty one too), else its value in the
\* contact mapping; a payload without a contact mapping is used as it is;
\* the payload is not modified
C7_TopLevelWins ==
    /\ [](built.done =>
            /\ built.res = build_query_from_form(ResolvedPayload(form))
            /\ ~ContactIsDict(form) => flatten_payload(form) = form)
    /\ [][form' = form]_vars

\* a payload with an empty top-level value and a value in contact for the
\* same key has been built: the field is absent and the contact value is
\* not in the query
C7_Witness ==
    /\ built.done
    /\ ContactIsDict(form)
    /\ form.top["relationship"] = StrVal(<<>>)
    /\ form.contact.m["relationship"].t = "str"
    /\ ~Blank(form.contact.m["relationship"])
    /\ built.res.raw_mapping.relationship = NoneVal
    /\ built.res.q = GiftIdeas

\* the primary terms of a result, in the order of the query
PrimaryOf(m) ==
    AllTokens(<<m.relationship>>) \o AllTokens(<<m.occasion>>)
    \o m.hobbies_interests \o m.favorite_brands \o m.favorite_colors_styles
    \o AllTokens(<<m.gift_type_preference>>)

\* the soft terms of a result, in the order of the query
SoftOf(m) ==
    (IF Truthy(m.age_range) THEN <<PyStr(m.age_range)>> ELSE <<>>)
    \o (IF Truthy(m.gender) THEN <<PyStr(m.gender)>> ELSE <<>>)
    \o (IF Truthy(m.location_city) THEN <<PyStr(m.location_city)>> ELSE <<>>)
    \o [i \in 1..Len(m.dislikes) |-> <<"n", "o", "t", " ">> \o m.dislikes[i]]

\* the primary terms, then a space and the soft terms if there are any
TermsInOrder(m) ==
    JoinSpace(PrimaryOf(m))
    \o (IF SoftOf(m) # <<>> THEN <<" ">> \o JoinSpace(SoftOf(m)) ELSE <<>>)

\* C10: the query is the primary terms in the order relationship, occasion,
\* hobbies, brands, colors and styles, gift type, followed by the soft terms
\* in the order age range, gender, city, then each dislike after "not "
C10_TermOrder ==
    built.done =>
        built.res.q = IF Strip(TermsInOrder(built.res.raw_mapping)) = <<>>
                      THEN GiftIdeas
                      ELSE Strip(TermsInOrder(built.res.raw_mapping))

\* a query with primary terms, a soft term and dislikes has been built
C10_Witness ==
    /\ built.done
    /\ PrimaryOf(built.res.raw_mapping) # <<>>
    /\ Truthy(built.res.raw_mapping.age_range)
    /\ Len(built.res.raw_mapping.dislikes) = 2
    /\ built.res.q # GiftIdeas


(***************************************************************************)
(* Properties of the service                                               *)
(***************************************************************************)
\* thread r takes a step
Steps(r) == req'[r] # req[r]

\* the token response in hand is a success: status 200 with an access_token
ExchangeSucceeded(rq) ==
    rq.oauth.kind = "http" /\ rq.oauth.status = 200 /\ rq.oauth.has_token

\* C1, the check: with an entry in the cache and now < expiry - 60 the call
\* returns the cached token and sends no exchange; otherwise it goes on to
\* the exchange
C1_Check(r) ==
    (req[r].pc = "check" /\ Steps(r)) =>
        /\ issued' = issued
        /\ cache' = cache
        /\ IF cache.present /\ req[r].now < cache.exp - 60
           THEN /\ req'[r].pc = "search_call"
                /\ req'[r].token = cache.tok
                /\ req'[r].exchanges = 0
           ELSE /\ req'[r].pc = "oauth_call"
                /\ req'[r].exchanges = 0

\* C1, the exchange: one call is sent, and on success the cache slot
\* becomes (access_token, now + expires_in)
C1_Exchange(r) ==
    /\ (req[r].pc = "oauth_call" /\ Steps(r)) =>
          /\ req'[r].pc = "oauth_got"
          /\ req'[r].exchanges = 1
          /\ issued' = issued + 1
          /\ cache' = cache
    /\ (req[r].pc = "oauth_got" /\ Steps(r)) =>
          /\ req'[r].exchanges = 1
          /\ issued' = issued
          /\ IF ExchangeSucceeded(req[r])
             THEN /\ req'[r].pc = "search_call"
                  /\ req'[r].token = issued
                  /\ cache'.present
                  /\ cache'.tok = req'[r].token
                  /\ cache'.exp = req[r].now
                         + (IF req[r].oauth.has_expires
                            THEN req[r].oauth.expires_in ELSE 7200)
             ELSE cache' = cache

\* C1: a call of get_ebay_oauth_token with a fresh cached entry returns it
\* without an exchange; a call with no entry or an entry within 60 seconds
\* of its expiry sends exactly one exchange and, on success, stores
\* (access_token, now + expires_in); the clock never goes back
C1_TokenCache ==
    [][/\ clock' >= clock
       /\ \A r \in Workers : C1_Check(r) /\ C1_Exchange(r)]_vars

\* a token stored by one request has been returned from the cache to
\* another, 60 seconds later and 61 seconds before its expiry
C1_Witness ==
    \E r \in Workers :
        /\ req[r].pc = "search_call"
        /\ req[r].exchanges = 0
        /\ cache.present
        /\ req[r].token = cache.tok
        /\ clock = 60
        /\ cache.exp = 121
        /\ issued = 1

\* an entry 60 seconds before its expiry has been found stale and replaced
C1_WitnessExpired ==
    \E r \in Workers :
        /\ req[r].pc = "search_call"
        /\ req[r].exchanges = 1
        /\ issued = 2
        /\ cache.tok = 2
        /\ cache.exp = 60 + 7200


\* C5: when the search response carries errors and no itemSummaries, the
\* request does not complete as a success
C5_ErrorsSurfaced ==
    [][\A r \in Workers :
          (/\ req[r].pc = "search_got"
           /\ req[r].search.kind = "http"
           /\ req[r].search.has_errors
           /\ ~req[r].search.has_items
           /\ Steps(r))
             => (req'[r].pc = "done" /\ ~req'[r].reply.ok)]_vars

\* a search response of status 200 with errors and no itemSummaries has been
\* answered with ok=true and no items
C5_Witness ==
    \E r \in Workers :
        /\ req[r].pc = "done"
        /\ req[r].searches = 1
        /\ req[r].reply.ok
        /\ req[r].reply.status = 200
        /\ req[r].reply.items = 0

\* a status outside 200..299
Non2xx(resp) ==
    resp.kind = "http" /\ ~(resp.status >= 200 /\ resp.status <= 299)

\* a reply with a 5xx status that is no success
ServerError(reply) ==
    reply.status >= 500 /\ reply.status <= 599 /\ ~reply.ok

\* C6: when the token response or the search response has a status outside
\* 2xx, the handler, suggest or ghl_suggest, replies at once with a 5xx
\* error, never with ok=true
C6_Non2xxIsServerError ==
    [][\A r \in Workers :
          /\ (req[r].pc = "oauth_got" /\ Non2xx(req[r].oauth) /\ Steps(r))
                => (req'[r].pc = "done" /\ ServerError(req'[r].reply))
          /\ (req[r].pc = "search_got" /\ Non2xx(req[r].search) /\ Steps(r))
                => (req'[r].pc = "done" /\ ServerError(req'[r].reply))]_vars

\* suggest has answered 502 to a rejected exchange and ghl_suggest 502 to a
\* rejected search
C6_Witness ==
    \E r \in Workers, o \in Workers :
        /\ req[r].pc = "done" /\ req[r].handler = "suggest"
        /\ req[r].exchanges = 1 /\ req[r].searches = 0
        /\ req[r].reply = ErrorReply(502)
        /\ req[o].pc = "done" /\ req[o].handler = "ghl_suggest"
        /\ req[o].searches = 1
        /\ req[o].reply = ErrorReply(502)

\* C8: two calls of get_ebay_oauth_token that found the same cache state
\* absent or stale do not both send an exchange
C8_NoDuplicateRefresh ==
    \A r \in Workers, o \in Workers :
        (/\ r # o
         /\ req[r].pc = "oauth_got"
         /\ req[o].pc \in {"oauth_call", "oauth_got"})
            => req[r].seen # req[o].seen

\* two threads have each sent an exchange for the same missing entry
C8_Witness ==
    /\ req[1].pc = "oauth_got"
    /\ req[2].pc = "oauth_got"
    /\ req[1].seen = EmptyCache
    /\ req[2].seen = EmptyCache
    /\ issued = 2

\* the exchange in hand has failed: no response, a status other than 200,
\* or no access_token
ExchangeFailed(rq) == ~ExchangeSucceeded(rq)

\* C9: a request sends at most one exchange and at most one search, the
\* search only with a token in hand, and when the exchange fails the request
\* fails at once without a search
C9_NoRetryFailFast ==
    /\ [](\A r \in Workers :
            /\ req[r].exchanges <= 1
            /\ req[r].searches <= 1
            /\ req[r].pc = "search_got" => req[r].token # 0)
    /\ [][\A r \in Workers :
            /\ (req'[r].searches > req[r].searches) =>
                  (req[r].pc = "search_call" /\ req[r].token # 0)
            /\ (req[r].pc = "oauth_got" /\ ExchangeFailed(req[r]) /\ Steps(r))
                  => /\ req'[r].pc = "done"
                     /\ ~req'[r].reply.ok
                     /\ req'[r].exchanges = 1
                     /\ req'[r].searches = 0
                     /\ issued' = issued]_vars

\* a request whose exchange failed is done with an error, one exchange and
\* no search
C9_Witness ==
    \E r \in Workers :
        /\ req[r].pc = "done"
        /\ req[r].exchanges = 1
        /\ req[r].searches = 0
        /\ req[r].reply = ErrorReply(500)

=============================================================================
